---- MODULE Spec2Model ----
(***************************************************************************)
(* The MW0rld item contracts (Massa AssemblyScript) as a state machine     *)
(* over the persistent key-value store.  The repository holds four         *)
(* near-duplicate variants of the contract; the variable `variant` says    *)
(* which one is deployed:                                                  *)
(*   "part_000"   src/unnamed/part_000                                     *)
(*   "part_001"   src/unnamed/part_001                                     *)
(*   "Items01_a"  src/Items01.ts, lines 1-167                              *)
(*   "Items01_b"  src/Items01.ts, lines 169-331                            *)
(*                                                                         *)
(* A string is a sequence of tokens (each token a TLA+ string), so that    *)
(* split(','), join(','), indexOf(key) == 0 and the template literals of   *)
(* the source are computed and not assumed.  A storage key is the TLA+     *)
(* string got by concatenating the tokens of prefix and identifier.        *)
(* u256/u64 values are kept as integers.                                   *)
(***************************************************************************)
EXTENDS Integers, Sequences, FiniteSets, TLC

VARIABLES variant, Storage, last, hist

vars == <<variant, Storage, last, hist>>

Variants == {"part_000", "part_001", "Items01_a", "Items01_b"}

(* ------------------------------ bounds --------------------------------- *)

\* ITEM_MAX_SUPPLY is 50000 in the source (5000 in Items01_b); the model
\* scales the ceiling down so that the supply can be exhausted.
ITEM_MAX_SUPPLY == 2

\* the same for the ITEM_MAX_SUPPLY of Items01_b (5000 in the source)
ITEM_MAX_SUPPLY_b == 2

\* How many calls a behaviour makes after the deployment.
MaxCalls == 3

(* ------------------------------ strings -------------------------------- *)

\* the empty string '' / new StaticArray<u8>(0)
EMPTY == <<>>

RECURSIVE Flat(_)
\* the characters of a string, as one storage-key component
Flat(s) == IF s = <<>> THEN "" ELSE Head(s) \o Flat(Tail(s))

\* u256.toString() / template-literal rendering of a number
NumStr(n) == <<ToString(n)>>

RECURSIVE SplitFrom(_, _, _)
\* String#split(','): acc is the part being read
SplitFrom(s, i, acc) ==
    IF i > Len(s) THEN <<acc>>
    ELSE IF s[i] = "," THEN <<acc>> \o SplitFrom(s, i + 1, <<>>)
    ELSE SplitFrom(s, i + 1, Append(acc, s[i]))

Split(s) == SplitFrom(s, 1, <<>>)

RECURSIVE Join(_)
\* Array#join(',')
Join(parts) ==
    IF Len(parts) = 0 THEN <<>>
    ELSE IF Len(parts) = 1 THEN parts[1]
    ELSE parts[1] \o <<",">> \o Join(Tail(parts))

\* part.indexOf(key) == 0
StartsWith(part, key) == Len(part) >= 1 /\ part[1] = key

(* --------------------------- key-value store --------------------------- *)

\* Storage.has(key)
Has(S, k) == k \in DOMAIN S

\* Storage.set(key, value)
Set(S, k, v) == [x \in (DOMAIN S) \cup {k} |-> IF x = k THEN v ELSE S[x]]

\* value != null ? value : defaultValue
getOrDefault(S, k, d) == IF Has(S, k) THEN S[k] ELSE d

\* prefix + identifier.toString()
Key(prefix, ident) == prefix \o Flat(ident)

BASE_URI_KEY == "BASE_URI"

COUNTER_KEY == "COUNTER"

MAX_SUPPLY_KEY == "MAX_SUPPLY"

OWNER_KEY == "OWNER"

ITEM_TYPE_KEY == "ITEM_METADATA:"

TOKEN_OWNER_KEY == "TOKEN_OWNER:"

TOKEN_METADATA_KEY == "TOKEN_METADATA:"

BALANCE_KEY == "BALANCE:"

RARITY_KEY == "RARITY:"

APPROVED_KEY == "APPROVED:"

OPERATOR_APPROVAL_KEY == "OPERATOR_APPROVAL:"

ITEM_PRICE_PREFIX == "ITEM_PRICE:"

DEFAULT_XP == 0

DEFAULT_MAG == 0

DEFAULT_CONDITION == 100

\* the module-level Map of part_000 and of both halves of Items01.ts
ITEM_PRICES ==
    ("TitanRope" :> 80) @@ ("MagLum" :> 100) @@ ("NanoShelter" :> 350)
    @@ ("CrystalCondenser" :> 150) @@ ("CrystalSynthesizer" :> 500)

\* the prices part_001's constructor stores under ITEM_PRICE:{itemType}
STORED_PRICES ==
    ("TR" :> 80) @@ ("ML" :> 100) @@ ("NS" :> 350) @@ ("CC" :> 150) @@ ("CS" :> 500)

\* the ceiling each variant's mintItem compares the counter with
MaxSupplyOf(v) == IF v = "Items01_b" THEN ITEM_MAX_SUPPLY_b ELSE ITEM_MAX_SUPPLY

(* ------------------------------ inputs --------------------------------- *)

Deployer == <<"AU1deployer">>

Addresses == {Deployer, <<"AU1alice">>}

\* item types offered to mintItem: two of each price menu, so that each
\* variant sees priced and unpriced names
ItemTypeInputs == {<<"TitanRope">>, <<"MagLum">>, <<"TR">>, <<"ML">>}

\* coins attached to a mintItem call: nothing, the price of TitanRope/TR
\* (below the price of MagLum/ML), the price of MagLum/ML
CoinInputs == {0, 80, 100}

\* rarity strings given to setRarity: a plain word, and a text that holds
\* the record's own delimiter and a key
RarityInputs == {<<"Legendary">>, <<"Epic", ",", "XP=", "7">>}

\* (xp, mag, condition) given to updateItemMetadata
StatInputs == {<<10, 5, 80>>, <<3, 9, 1>>}

\* key=value updates given to editMetadata, already split at the '='
KeyValueInputs == {<<"XP", <<"55">>>>, <<"RARITY", <<"Epic">>>>}

\* token ids given to the calls that take one: 0 is never minted
TokenIdInputs == 0 .. ITEM_MAX_SUPPLY

\* the deployment arguments, and the ones of a later constructor call
DeployArgs == [name |-> <<"MW0rldItems">>, symbol |-> <<"MWI">>, baseURI |-> <<"https://mw0rld.io/items">>]

ReinitArgs == [name |-> <<"Other">>, symbol |-> <<"OTH">>, baseURI |-> <<"https://other.io">>]

(* ------------------------------ outcomes ------------------------------- *)

NoAddress == <<>>

\* a call that ran to its end: the store it leaves and the coins it sent
Ok(S, sent, sentTo) == [store |-> S, result |-> "ok", sent |-> sent, sentTo |-> sentTo]

\* an aborted call: an assert that fails, or a trap
Fail(S, err) == [store |-> S, result |-> err, sent |-> 0, sentTo |-> NoAddress]

Last(seq) == seq[Len(seq)]

(* ------------------------- ownership, internals ------------------------ *)

_constructor(S, name, symbol) == Set(Set(S, "NAME", name), "SYMBOL", symbol)

\* an _update that stores the metadata and leaves the owner key alone
_update_metadataOnly(S, to, tokenId, metadata) ==
    Set(S, Key(TOKEN_METADATA_KEY, NumStr(tokenId)), metadata)

_update(S, to, tokenId, metadata) ==
    Set(Set(S, Key(TOKEN_METADATA_KEY, NumStr(tokenId)), metadata),
        Key(TOKEN_OWNER_KEY, NumStr(tokenId)), to)

setOwner(S, owner) == Set(S, OWNER_KEY, owner)

\* the OWNER key is written by every constructor, so the assert holds
ownerAddress(S) == S[OWNER_KEY]

\* an owner gate whose assert was left out
onlyOwner_unchecked(S, caller) == TRUE

onlyOwner(S, caller) == caller = ownerAddress(S)

generateMetadata(S, itemType, tokenId) ==
    LET rarity == getOrDefault(S, Key(RARITY_KEY, NumStr(tokenId)), <<"Undefined">>)
    IN  itemType \o <<",", "XP=">> \o NumStr(DEFAULT_XP)
                 \o <<",", "MAG=">> \o NumStr(DEFAULT_MAG)
                 \o <<",", "CONDITION=">> \o NumStr(DEFAULT_CONDITION)
                 \o <<",", "RARITY=">> \o rarity

incrementBalance(S, owner) ==
    LET balanceKey == Key(BALANCE_KEY, owner)
        currentBalance == getOrDefault(S, balanceKey, 0)
    IN  Set(S, balanceKey, currentBalance + 1)

(* ----------------------------- constructor ----------------------------- *)

\* part_000: no isDeployingContract() guard
constructor_000(S, caller, args, deploying) ==
    LET S1 == _constructor(S, args.name, args.symbol)
        S2 == setOwner(S1, caller)
        S3 == Set(S2, BASE_URI_KEY, args.baseURI)
        S4 == Set(S3, MAX_SUPPLY_KEY, ITEM_MAX_SUPPLY)
        S5 == Set(S4, COUNTER_KEY, 0)
    IN  Ok(S5, 0, NoAddress)

RECURSIVE setItemPrices(_, _)
\* setItemPrice for each entry of the price list
setItemPrices(S, names) ==
    IF names = {} THEN S
    ELSE LET n == CHOOSE x \in names : TRUE
         IN  setItemPrices(Set(S, ITEM_PRICE_PREFIX \o n, STORED_PRICES[n]), names \ {n})

\* part_001: guarded; symbol and base URI are the defaults, not arguments
constructor_001(S, caller, args, deploying) ==
    IF ~deploying THEN Fail(S, "AlreadyInitialized")
    ELSE LET S1 == _constructor(S, args.name, <<"DEFAULT_SYMBOL">>)
             S2 == setOwner(S1, caller)
             S3 == Set(S2, BASE_URI_KEY, <<"DEFAULT_BASE_URI">>)
             S4 == Set(S3, MAX_SUPPLY_KEY, ITEM_MAX_SUPPLY)
             S5 == Set(S4, COUNTER_KEY, 0)
             S6 == setItemPrices(S5, DOMAIN STORED_PRICES)
         IN  Ok(S6, 0, NoAddress)

\* Items01.ts, first half: guarded; the collection name is fixed
constructor_01a(S, caller, args, deploying) ==
    IF ~deploying THEN Fail(S, "AlreadyInitialized")
    ELSE LET S1 == _constructor(S, <<"MW0rldItems1">>, <<"MI1">>)
             S2 == Set(S1, BASE_URI_KEY, args.baseURI)
             S3 == setOwner(S2, caller)
             S4 == Set(S3, BASE_URI_KEY, args.baseURI)
             S5 == Set(S4, COUNTER_KEY, 0)
         IN  Ok(S5, 0, NoAddress)

\* Items01.ts, second half: no guard
constructor_01b(S, caller, args, deploying) ==
    LET S1 == _constructor(S, args.name, args.symbol)
        S2 == setOwner(S1, caller)
        S3 == Set(S2, BASE_URI_KEY, args.baseURI)
        S4 == Set(S3, MAX_SUPPLY_KEY, ITEM_MAX_SUPPLY_b)
        S5 == Set(S4, COUNTER_KEY, 0)
    IN  Ok(S5, 0, NoAddress)

constructor(v, S, caller, args, deploying) ==
    CASE v = "part_000"  -> constructor_000(S, caller, args, deploying)
      [] v = "part_001"  -> constructor_001(S, caller, args, deploying)
      [] v = "Items01_a" -> constructor_01a(S, caller, args, deploying)
      [] v = "Items01_b" -> constructor_01b(S, caller, args, deploying)

\* the store a deployment by Deployer leaves
Deployed(v) == constructor(v, <<>>, Deployer, DeployArgs, TRUE).store

(* ------------------------------- mintItem ------------------------------ *)

\* part_001, getItemPrice: present iff the constructor stored a price
HasStoredPrice(S, itemType) == Has(S, ITEM_PRICE_PREFIX \o Flat(itemType))

getItemPrice(S, itemType) == S[ITEM_PRICE_PREFIX \o Flat(itemType)]

\* ITEM_PRICES.get(itemType) traps on a key the Map does not hold
HasMapPrice(itemType) == Flat(itemType) \in DOMAIN ITEM_PRICES

MapPrice(itemType) == ITEM_PRICES[Flat(itemType)]

\* a payment check that only asks for some payment
enoughCoins_anyPayment(coins, price) == coins > 0

\* assert(Context.transferredCoins() >= price, 'Not enough coins sent.')
enoughCoins(coins, price) == coins >= price

\* a supply check that was left out
belowMaxSupply_unchecked(supply, max) == TRUE

\* a supply check that is off by one
belowMaxSupply_inclusive(supply, max) == supply <= max

\* assert(currentSupply < ITEM_MAX_SUPPLY, 'Max supply reached.')
belowMaxSupply(supply, max) == supply < max

\* part_000, lines 146-158: the store after each Storage.set of a mint
mintWrites_000(S, itemType, to) ==
    LET newSupply == getOrDefault(S, COUNTER_KEY, 0) + 1
        S1 == Set(S, COUNTER_KEY, newSupply)
        S2 == Set(S1, Key(ITEM_TYPE_KEY, NumStr(newSupply)),
                  generateMetadata(S1, itemType, newSupply))
        S3 == Set(S2, Key(TOKEN_OWNER_KEY, NumStr(newSupply)), to)
        S4 == incrementBalance(S3, to)
        S5 == Set(S4, Key(TOKEN_METADATA_KEY, NumStr(newSupply)), EMPTY)
        S6 == _update(S4, to, newSupply, EMPTY)
    IN  <<S1, S2, S3, S4, S5, S6>>

mintItem_000(S, caller, itemType, to, coins) ==
    IF ~HasMapPrice(itemType) THEN Fail(S, "UnknownItemType")
    ELSE IF caller # S[OWNER_KEY] /\ ~enoughCoins(coins, MapPrice(itemType))
         THEN Fail(S, "InsufficientPayment")
    ELSE IF ~belowMaxSupply(getOrDefault(S, COUNTER_KEY, 0), ITEM_MAX_SUPPLY)
         THEN Fail(S, "SupplyExhausted")
    ELSE LET done == Last(mintWrites_000(S, itemType, to))
         IN  IF coins > 0 THEN Ok(done, coins, ownerAddress(done))
             ELSE Ok(done, 0, NoAddress)

\* the writes of a mint with the counter stored last
mintWrites_001_counterLast(S, itemType, to) ==
    LET newSupply == S[COUNTER_KEY] + 1
        S1 == Set(S, Key(ITEM_TYPE_KEY, NumStr(newSupply)),
                  generateMetadata(S, itemType, newSupply))
        S2 == Set(S1, Key(TOKEN_OWNER_KEY, NumStr(newSupply)), to)
        S3 == incrementBalance(S2, to)
        S4 == Set(S3, Key(TOKEN_METADATA_KEY, NumStr(newSupply)), EMPTY)
        S5 == _update(S3, to, newSupply, EMPTY)
        S6 == Set(S5, COUNTER_KEY, newSupply)
    IN  <<S1, S2, S3, S4, S5, S6>>

\* part_001, lines 215-227
mintWrites_001(S, itemType, to) ==
    LET newSupply == S[COUNTER_KEY] + 1
        S1 == Set(S, COUNTER_KEY, newSupply)
        S2 == Set(S1, Key(ITEM_TYPE_KEY, NumStr(newSupply)),
                  generateMetadata(S1, itemType, newSupply))
        S3 == Set(S2, Key(TOKEN_OWNER_KEY, NumStr(newSupply)), to)
        S4 == incrementBalance(S3, to)
        S5 == Set(S4, Key(TOKEN_METADATA_KEY, NumStr(newSupply)), EMPTY)
        S6 == _update(S4, to, newSupply, EMPTY)
    IN  <<S1, S2, S3, S4, S5, S6>>

\* a mint that takes a missing price entry for the price 0
mintItem_001_unpriced(S, caller, itemType, to, coins) ==
    LET price == IF HasStoredPrice(S, itemType) THEN getItemPrice(S, itemType) ELSE 0
    IN  IF caller # ownerAddress(S) /\ ~enoughCoins(coins, price)
        THEN Fail(S, "InsufficientPayment")
        ELSE IF ~belowMaxSupply(S[COUNTER_KEY], ITEM_MAX_SUPPLY)
        THEN Fail(S, "SupplyExhausted")
        ELSE LET done == Last(mintWrites_001(S, itemType, to))
             IN  IF coins > 0 /\ caller # ownerAddress(done)
                 THEN Ok(done, coins, ownerAddress(done))
                 ELSE Ok(done, 0, NoAddress)

\* a mint that writes the counter before it checks the supply
mintItem_001_lateSupplyCheck(S, caller, itemType, to, coins) ==
    IF ~HasStoredPrice(S, itemType) THEN Fail(S, "UnknownItemType")
    ELSE IF caller # ownerAddress(S) /\ ~enoughCoins(coins, getItemPrice(S, itemType))
         THEN Fail(S, "InsufficientPayment")
    ELSE LET writes == mintWrites_001(S, itemType, to)
         IN  IF ~belowMaxSupply(S[COUNTER_KEY], ITEM_MAX_SUPPLY)
             THEN Fail(writes[1], "SupplyExhausted")
             ELSE IF coins > 0 /\ caller # ownerAddress(Last(writes))
             THEN Ok(Last(writes), coins, ownerAddress(Last(writes)))
             ELSE Ok(Last(writes), 0, NoAddress)

mintItem_001(S, caller, itemType, to, coins) ==
    IF ~HasStoredPrice(S, itemType) THEN Fail(S, "UnknownItemType")
    ELSE IF caller # ownerAddress(S) /\ ~enoughCoins(coins, getItemPrice(S, itemType))
         THEN Fail(S, "InsufficientPayment")
    ELSE IF ~belowMaxSupply(S[COUNTER_KEY], ITEM_MAX_SUPPLY)
         THEN Fail(S, "SupplyExhausted")
    ELSE LET done == Last(mintWrites_001(S, itemType, to))
         IN  IF coins > 0 /\ caller # ownerAddress(done)
             THEN Ok(done, coins, ownerAddress(done))
             ELSE Ok(done, 0, NoAddress)

\* Items01.ts, lines 94-103: no _update
mintWrites_01a(S, itemType, to) ==
    LET newSupply == getOrDefault(S, COUNTER_KEY, 0) + 1
        S1 == Set(S, COUNTER_KEY, newSupply)
        S2 == Set(S1, Key(ITEM_TYPE_KEY, NumStr(newSupply)),
                  generateMetadata(S1, itemType, newSupply))
        S3 == Set(S2, Key(TOKEN_OWNER_KEY, NumStr(newSupply)), to)
        S4 == incrementBalance(S3, to)
    IN  <<S1, S2, S3, S4>>

mintItem_01a(S, caller, itemType, to, coins) ==
    IF ~HasMapPrice(itemType) THEN Fail(S, "UnknownItemType")
    ELSE IF caller # ownerAddress(S) /\ ~enoughCoins(coins, MapPrice(itemType))
         THEN Fail(S, "InsufficientPayment")
    ELSE IF ~belowMaxSupply(getOrDefault(S, COUNTER_KEY, 0), ITEM_MAX_SUPPLY)
         THEN Fail(S, "SupplyExhausted")
    ELSE LET done == Last(mintWrites_01a(S, itemType, to))
         IN  IF coins > 0 THEN Ok(done, coins, ownerAddress(done))
             ELSE Ok(done, 0, NoAddress)

\* Items01.ts, lines 250-259: the record has no RARITY segment, the owner is
\* written by _update alone and no balance is written
mintWrites_01b(S, itemType, to) ==
    LET newSupply == S[COUNTER_KEY] + 1
        S1 == Set(S, COUNTER_KEY, newSupply)
        S2 == Set(S1, Key(ITEM_TYPE_KEY, NumStr(newSupply)),
                  itemType \o <<",", "XP=">> \o NumStr(DEFAULT_XP)
                           \o <<",", "MAG=">> \o NumStr(DEFAULT_MAG)
                           \o <<",", "CONDITION=">> \o NumStr(DEFAULT_CONDITION))
        S3 == Set(S2, Key(TOKEN_METADATA_KEY, NumStr(newSupply)), EMPTY)
        S4 == _update(S2, to, newSupply, EMPTY)
    IN  <<S1, S2, S3, S4>>

mintItem_01b(S, caller, itemType, to, coins) ==
    IF ~HasMapPrice(itemType) THEN Fail(S, "UnknownItemType")
    ELSE IF caller # ownerAddress(S) /\ ~enoughCoins(coins, MapPrice(itemType))
         THEN Fail(S, "InsufficientPayment")
    ELSE IF ~belowMaxSupply(S[COUNTER_KEY], ITEM_MAX_SUPPLY_b)
         THEN Fail(S, "SupplyExhausted")
    ELSE LET done == Last(mintWrites_01b(S, itemType, to))
         IN  IF coins > 0 THEN Ok(done, coins, ownerAddress(done))
             ELSE Ok(done, 0, NoAddress)

\* the stores a mint of the deployed variant goes through, write by write
mintWrites(v, S, itemType, to) ==
    CASE v = "part_000"  -> mintWrites_000(S, itemType, to)
      [] v = "part_001"  -> mintWrites_001(S, itemType, to)
      [] v = "Items01_a" -> mintWrites_01a(S, itemType, to)
      [] v = "Items01_b" -> mintWrites_01b(S, itemType, to)

mintItem(v, S, caller, itemType, to, coins) ==
    CASE v = "part_000"  -> mintItem_000(S, caller, itemType, to, coins)
      [] v = "part_001"  -> mintItem_001(S, caller, itemType, to, coins)
      [] v = "Items01_a" -> mintItem_01a(S, caller, itemType, to, coins)
      [] v = "Items01_b" -> mintItem_01b(S, caller, itemType, to, coins)

\* currentSupply(): the stored counter
currentSupply(S) == S[COUNTER_KEY]

(* --------------------------- attribute mutators ------------------------ *)

\* a setRarity that stores the rarity through _update, owner key included
setRarity_viaUpdate(S, caller, tokenId, rarity) ==
    IF ~onlyOwner(S, caller) THEN Fail(S, "Unauthorized")
    ELSE Ok(_update(Set(S, Key(RARITY_KEY, NumStr(tokenId)), rarity),
                    caller, tokenId, rarity), 0, NoAddress)

\* setRarity of part_000 (218-229), part_001 (337-346), Items01.ts (158-167)
setRarity(S, caller, tokenId, rarity) ==
    IF ~onlyOwner(S, caller) THEN Fail(S, "Unauthorized")
    ELSE Ok(Set(S, Key(RARITY_KEY, NumStr(tokenId)), rarity), 0, NoAddress)

RECURSIVE LastIndexFrom(_, _, _, _)
\* the loop of updateItemMetadata for one key: the last part that starts
\* with it, `found` (0: none, the source's -1) so far
LastIndexFrom(parts, key, i, found) ==
    IF i > Len(parts) THEN found
    ELSE LastIndexFrom(parts, key, i + 1,
                       IF StartsWith(parts[i], key) THEN i ELSE found)

LastIndex(parts, key) == LastIndexFrom(parts, key, 1, 0)

\* parts[index] = value
SetPart(parts, index, value) == [parts EXCEPT ![index] = value]

\* an update in which a store at index -1 is dropped and the call goes on
updateItemMetadata_skipMissing(S, caller, tokenId, newXP, newMAG, newCondition) ==
    IF ~onlyOwner(S, caller) THEN Fail(S, "Unauthorized")
    ELSE LET metadataKey == Key(ITEM_TYPE_KEY, NumStr(tokenId))
             parts == Split(getOrDefault(S, metadataKey, EMPTY))
             xpIndex == LastIndex(parts, "XP=")
             magIndex == LastIndex(parts, "MAG=")
             conditionIndex == LastIndex(parts, "CONDITION=")
             p1 == IF xpIndex = 0 THEN parts
                   ELSE SetPart(parts, xpIndex, <<"XP=">> \o NumStr(newXP))
             p2 == IF magIndex = 0 THEN p1
                   ELSE SetPart(p1, magIndex, <<"MAG=">> \o NumStr(newMAG))
             p3 == IF conditionIndex = 0 THEN p2
                   ELSE SetPart(p2, conditionIndex,
                                <<"CONDITION=">> \o NumStr(newCondition))
         IN  Ok(Set(S, metadataKey, Join(p3)), 0, NoAddress)

\* part_001, lines 287-331.  parts[-1] = ... is a RangeError trap of the
\* array store: the call aborts before Storage.set.
updateItemMetadata(S, caller, tokenId, newXP, newMAG, newCondition) ==
    IF ~onlyOwner(S, caller) THEN Fail(S, "Unauthorized")
    ELSE LET metadataKey == Key(ITEM_TYPE_KEY, NumStr(tokenId))
             currentMetadata == getOrDefault(S, metadataKey, EMPTY)
             parts == Split(currentMetadata)
             xpIndex == LastIndex(parts, "XP=")
             magIndex == LastIndex(parts, "MAG=")
             conditionIndex == LastIndex(parts, "CONDITION=")
         IN  IF xpIndex = 0 \/ magIndex = 0 \/ conditionIndex = 0
             THEN Fail(S, "MalformedRecord")
             ELSE LET p1 == SetPart(parts, xpIndex, <<"XP=">> \o NumStr(newXP))
                      p2 == SetPart(p1, magIndex, <<"MAG=">> \o NumStr(newMAG))
                      p3 == SetPart(p2, conditionIndex,
                                    <<"CONDITION=">> \o NumStr(newCondition))
                  IN  Ok(Set(S, metadataKey, Join(p3)), 0, NoAddress)

RECURSIVE ReplaceParts(_, _, _)
\* the loop of updateMetadata: every part that starts with key= is replaced
ReplaceParts(parts, key, value) ==
    IF parts = <<>> THEN <<>>
    ELSE <<IF StartsWith(Head(parts), key \o "=")
           THEN <<key \o "=">> \o value ELSE Head(parts)>>
         \o ReplaceParts(Tail(parts), key, value)

\* Items01.ts, lines 289-312, for an update "key=value" with one '='
updateMetadata(current, key, value) ==
    LET metadataParts == Split(current)
        found == \E i \in 1 .. Len(metadataParts) :
                     StartsWith(metadataParts[i], key \o "=")
        replaced == ReplaceParts(metadataParts, key, value)
    IN  Join(IF found THEN replaced ELSE Append(replaced, <<key \o "=">> \o value))

\* Items01.ts, lines 271-284; Storage.get of a missing key aborts the call
editMetadata(S, caller, tokenId, key, value) ==
    IF ~onlyOwner(S, caller) THEN Fail(S, "Unauthorized")
    ELSE LET metadataKey == Key(ITEM_TYPE_KEY, NumStr(tokenId))
         IN  IF ~Has(S, metadataKey) THEN Fail(S, "NotFound")
             ELSE Ok(Set(S, metadataKey, updateMetadata(S[metadataKey], key, value)),
                     0, NoAddress)

\* Items01.ts, lines 66-74; _setBaseURI stores the string under BASE_URI
setBaseURI(S, caller, newBaseUri) ==
    IF ~onlyOwner(S, caller) THEN Fail(S, "Unauthorized")
    ELSE Ok(Set(S, BASE_URI_KEY, newBaseUri), 0, NoAddress)

(* -------------------------------- reads -------------------------------- *)

\* ownerOf: the stored owner, NoAddress when the key is missing
ownerOf(S, tokenId) == getOrDefault(S, Key(TOKEN_OWNER_KEY, NumStr(tokenId)), NoAddress)

balanceOf(S, address) == getOrDefault(S, Key(BALANCE_KEY, address), 0)

maxSupply(S) == S[MAX_SUPPLY_KEY]

\* part_000, lines 199-211: the stored record is passed as the item type
tokenURI_000(S, tokenId) ==
    LET metadataKey == Key(ITEM_TYPE_KEY, NumStr(tokenId))
    IN  S[BASE_URI_KEY] \o <<"/">> \o NumStr(tokenId) \o <<"?">>
          \o generateMetadata(S, S[metadataKey], tokenId)

\* part_001, lines 166-177: the stored record as it is
tokenURI_001(S, tokenId) ==
    LET metadataKey == Key(ITEM_TYPE_KEY, NumStr(tokenId))
    IN  S[BASE_URI_KEY] \o <<"/">> \o NumStr(tokenId) \o <<"?">>
          \o getOrDefault(S, metadataKey, EMPTY)

\* Items01.ts, lines 126-142
tokenURI_01a(S, tokenId) ==
    LET metadataKey == Key(ITEM_TYPE_KEY, NumStr(tokenId))
    IN  getOrDefault(S, BASE_URI_KEY, EMPTY) \o <<"/">> \o NumStr(tokenId) \o <<"?">>
          \o generateMetadata(S, getOrDefault(S, metadataKey, EMPTY), tokenId)

\* the variants that export tokenURI
HasTokenURI(v) == v \in {"part_000", "part_001", "Items01_a"}

tokenURI(v, S, tokenId) ==
    CASE v = "part_000"  -> tokenURI_000(S, tokenId)
      [] v = "part_001"  -> tokenURI_001(S, tokenId)
      [] v = "Items01_a" -> tokenURI_01a(S, tokenId)

\* a read entry point that returned a value, and one that aborted
Returned(value) == [result |-> "ok", value |-> value]

Aborted(err) == [result |-> err, value |-> EMPTY]

\* part_000, lines 170-175, as a call: Storage.get of the owner key with no
\* null check, which aborts the call when the key is missing
ownerOf_000(S, tokenId) ==
    IF Has(S, Key(TOKEN_OWNER_KEY, NumStr(tokenId)))
    THEN Returned(S[Key(TOKEN_OWNER_KEY, NumStr(tokenId))])
    ELSE Aborted("NotFound")

\* tokenURI as a call: part_000 reads the record with a bare Storage.get;
\* part_001 and Items01.ts replace a missing record by the empty string
tokenURI_call(v, S, tokenId) ==
    IF v = "part_000" /\ ~Has(S, Key(ITEM_TYPE_KEY, NumStr(tokenId)))
    THEN Aborted("NotFound")
    ELSE Returned(tokenURI(v, S, tokenId))

(* -------------------------------- ledger ------------------------------- *)

\* Storage.del(key)
Del(S, k) == [x \in (DOMAIN S) \ {k} |-> S[x]]

OperatorKey(owner, operator) ==
    OPERATOR_APPROVAL_KEY \o Flat(owner) \o ":" \o Flat(operator)

getApproved(S, tokenId) == getOrDefault(S, Key(APPROVED_KEY, NumStr(tokenId)), NoAddress)

isApprovedForAll(S, owner, operator) == getOrDefault(S, OperatorKey(owner, operator), FALSE)

\* the token was minted: it has a stored owner
Exists(S, tokenId) == Has(S, Key(TOKEN_OWNER_KEY, NumStr(tokenId)))

approve(S, caller, to, tokenId) ==
    IF ~(Exists(S, tokenId)
         /\ (caller = ownerOf(S, tokenId)
             \/ isApprovedForAll(S, ownerOf(S, tokenId), caller)))
    THEN Fail(S, "Unauthorized")
    ELSE Ok(Set(S, Key(APPROVED_KEY, NumStr(tokenId)), to), 0, NoAddress)

setApprovalForAll(S, caller, operator, approved) ==
    Ok(Set(S, OperatorKey(caller, operator), approved), 0, NoAddress)

\* a transfer that leaves the per-token approval in place
transferFrom_keepsApproval(S, caller, from, to, tokenId) ==
    IF ~(caller = from
         \/ (Exists(S, tokenId) /\ caller = getApproved(S, tokenId))
         \/ isApprovedForAll(S, from, caller))
    THEN Fail(S, "Unauthorized")
    ELSE IF ~(Exists(S, tokenId) /\ ownerOf(S, tokenId) = from)
    THEN Fail(S, "NotFound")
    ELSE LET S1 == Set(S, Key(BALANCE_KEY, from), balanceOf(S, from) - 1)
             S2 == Set(S1, Key(BALANCE_KEY, to), balanceOf(S1, to) + 1)
             S3 == Set(S2, Key(TOKEN_OWNER_KEY, NumStr(tokenId)), to)
         IN  Ok(S3, 0, NoAddress)

\* a transfer that does not ask who calls
transferFrom_anyCaller(S, caller, from, to, tokenId) ==
    IF ~(Exists(S, tokenId) /\ ownerOf(S, tokenId) = from)
    THEN Fail(S, "NotFound")
    ELSE LET S1 == Set(S, Key(BALANCE_KEY, from), balanceOf(S, from) - 1)
             S2 == Set(S1, Key(BALANCE_KEY, to), balanceOf(S1, to) + 1)
             S3 == Set(S2, Key(TOKEN_OWNER_KEY, NumStr(tokenId)), to)
             S4 == Del(S3, Key(APPROVED_KEY, NumStr(tokenId)))
         IN  Ok(S4, 0, NoAddress)

transferFrom(S, caller, from, to, tokenId) ==
    IF ~(caller = from
         \/ (Exists(S, tokenId) /\ caller = getApproved(S, tokenId))
         \/ isApprovedForAll(S, from, caller))
    THEN Fail(S, "Unauthorized")
    ELSE IF ~(Exists(S, tokenId) /\ ownerOf(S, tokenId) = from)
    THEN Fail(S, "NotFound")
    ELSE LET S1 == Set(S, Key(BALANCE_KEY, from), balanceOf(S, from) - 1)
             S2 == Set(S1, Key(BALANCE_KEY, to), balanceOf(S1, to) + 1)
             S3 == Set(S2, Key(TOKEN_OWNER_KEY, NumStr(tokenId)), to)
             S4 == Del(S3, Key(APPROVED_KEY, NumStr(tokenId)))
         IN  Ok(S4, 0, NoAddress)

(* ----------------------------- state machine --------------------------- *)

\* what the last call was and how it ended
Call(op, caller, id, coins, r) ==
    [op |-> op, caller |-> caller, id |-> id, coins |-> coins,
     result |-> r.result, sent |-> r.sent, sentTo |-> r.sentTo]

\* one call processed to completion: its store, its record, the history
Step(c, r) ==
    /\ hist.calls < MaxCalls
    /\ Storage' = r.store
    /\ last' = c
    /\ hist' = [calls |-> hist.calls + 1,
                mints |-> IF c.op = "mintItem" /\ r.result = "ok"
                          THEN hist.mints + 1 ELSE hist.mints,
                reinits |-> IF c.op = "constructor" /\ r.result = "ok"
                            THEN hist.reinits + 1 ELSE hist.reinits]
    /\ UNCHANGED variant

Init ==
    /\ variant \in Variants
    /\ Storage = Deployed(variant)
    /\ last = Call("deploy", Deployer, 0, 0, Ok(Deployed(variant), 0, NoAddress))
    /\ hist = [calls |-> 0, mints |-> 0, reinits |-> 0]

\* the exported constructor, called again after deployment
Constructor ==
    \E caller \in Addresses :
        LET r == constructor(variant, Storage, caller, ReinitArgs, FALSE)
        IN  Step(Call("constructor", caller, 0, 0, r), r)

MintItem ==
    \E caller \in Addresses, itemType \in ItemTypeInputs, to \in Addresses,
       coins \in CoinInputs :
        LET r == mintItem(variant, Storage, caller, itemType, to, coins)
            newId == IF r.result = "ok" THEN currentSupply(r.store) ELSE 0
        IN  Step(Call("mintItem", caller, newId, coins, r), r)

SetRarity ==
    /\ variant \in {"part_000", "part_001", "Items01_a"}
    /\ \E caller \in Addresses, tokenId \in TokenIdInputs, rarity \in RarityInputs :
        LET r == setRarity(Storage, caller, tokenId, rarity)
        IN  Step(Call("setRarity", caller, tokenId, 0, r), r)

UpdateItemMetadata ==
    /\ variant = "part_001"
    /\ \E caller \in Addresses, tokenId \in TokenIdInputs, stats \in StatInputs :
        LET r == updateItemMetadata(Storage, caller, tokenId,
                                    stats[1], stats[2], stats[3])
        IN  Step(Call("updateItemMetadata", caller, tokenId, 0, r), r)

EditMetadata ==
    /\ variant = "Items01_b"
    /\ \E caller \in Addresses, tokenId \in TokenIdInputs, kv \in KeyValueInputs :
        LET r == editMetadata(Storage, caller, tokenId, kv[1], kv[2])
        IN  Step(Call("editMetadata", caller, tokenId, 0, r), r)

SetBaseURI ==
    /\ variant = "Items01_a"
    /\ \E caller \in Addresses :
        LET r == setBaseURI(Storage, caller, ReinitArgs.baseURI)
        IN  Step(Call("setBaseURI", caller, 0, 0, r), r)

Approve ==
    /\ variant = "part_001"
    /\ \E caller \in Addresses, to \in Addresses, tokenId \in TokenIdInputs :
        LET r == approve(Storage, caller, to, tokenId)
        IN  Step(Call("approve", caller, tokenId, 0, r), r)

SetApprovalForAll ==
    /\ variant = "part_001"
    /\ \E caller \in Addresses, approved \in BOOLEAN :
      \E operator \in Addresses \ {caller} :
        LET r == setApprovalForAll(Storage, caller, operator, approved)
        IN  Step(Call("setApprovalForAll", caller, 0, 0, r), r)

TransferFrom ==
    /\ variant = "part_001"
    /\ \E caller \in Addresses, from \in Addresses, to \in Addresses,
          tokenId \in TokenIdInputs :
        LET r == transferFrom(Storage, caller, from, to, tokenId)
        IN  Step(Call("transferFrom", caller, tokenId, 0, r), r)

Next ==
    \/ Constructor
    \/ MintItem
    \/ SetRarity
    \/ UpdateItemMetadata
    \/ EditMetadata
    \/ SetBaseURI
    \/ Approve
    \/ SetApprovalForAll
    \/ TransferFrom

Spec == Init /\ [][Next]_vars

(* ----------------------- a host without rollback ----------------------- *)

\* a mintItem call that passed its validations and is cut off after its
\* first k Storage.set, in a host that keeps the writes of an aborted call
mintItem_aborted(v, S, caller, itemType, to, coins, k) ==
    Fail(mintWrites(v, S, itemType, to)[k], "Aborted")

\* coins attached to a call that is cut off: enough for either price, the
\* writes of a mint do not depend on them
AbortedCoinInputs == {c \in CoinInputs : \A d \in CoinInputs : d <= c}

MintItemAborted ==
    \E caller \in Addresses, itemType \in ItemTypeInputs, to \in Addresses,
       coins \in AbortedCoinInputs :
        /\ mintItem(variant, Storage, caller, itemType, to, coins).result = "ok"
        /\ \E k \in 1 .. Len(mintWrites(variant, Storage, itemType, to)) :
              LET r == mintItem_aborted(variant, Storage, caller, itemType, to, coins, k)
              IN  Step(Call("mintItem", caller, currentSupply(r.store), coins, r), r)

NextNoRollback ==
    \/ Next
    \/ MintItemAborted

SpecNoRollback == Init /\ [][NextNoRollback]_vars

(* -------------------------- claims: vocabulary ------------------------- *)

\* price(itemType) of the deployed variant, where the type has one
Priced(itemType) ==
    IF variant = "part_001" THEN HasStoredPrice(Storage, itemType)
    ELSE HasMapPrice(itemType)

PriceOf(itemType) ==
    IF variant = "part_001" THEN getItemPrice(Storage, itemType)
    ELSE MapPrice(itemType)

TokenIds == 0 .. (ITEM_MAX_SUPPLY + ITEM_MAX_SUPPLY_b)

OwnedBy(S, a) == {t \in TokenIds : ownerOf(S, t) = a}

\* the last call was a mintItem that went through
Minted == last.op = "mintItem" /\ last.result = "ok"

(* -------------------------------- C1 ----------------------------------- *)

\* C1: from a fresh deployment and over any sequence of calls, the k-th
\* successful mintItem is given token id k, and after n successful mints
\* currentSupply() is n.
C1_MintIdsSequential ==
    /\ Minted => last.id = hist.mints
    /\ currentSupply(Storage) = hist.mints

(* -------------------------------- C2 ----------------------------------- *)

\* C2: after any sequence of mintItem and transferFrom calls (the constructor
\* is not called again), balanceOf(a) is the number of token ids whose stored
\* owner is a, for every address a.
C2_BalanceMatchesOwnership ==
    hist.reinits = 0 =>
        \A a \in Addresses : balanceOf(Storage, a) = Cardinality(OwnedBy(Storage, a))

(* -------------------------------- C3 ----------------------------------- *)

\* C3 as stated: at Counter == MaxSupply every mintItem call fails with
\* SupplyExhausted and leaves the store unchanged.
C3_AlwaysSupplyExhausted ==
    currentSupply(Storage) = MaxSupplyOf(variant) =>
        \A caller \in Addresses, itemType \in ItemTypeInputs, to \in Addresses,
           coins \in CoinInputs :
            LET r == mintItem(variant, Storage, caller, itemType, to, coins)
            IN  r.result = "SupplyExhausted" /\ r.store = Storage

\* C3 amended: at Counter == MaxSupply every mintItem call fails, leaves the
\* store unchanged and forwards nothing; the failure is SupplyExhausted when
\* the call passes the item-type and payment checks that come first.  With
\* the ceiling at 2 the counter gets there by two successful mints.
C3_SupplyExhausted ==
    currentSupply(Storage) = MaxSupplyOf(variant) =>
        \A caller \in Addresses, itemType \in ItemTypeInputs, to \in Addresses,
           coins \in CoinInputs :
            LET r == mintItem(variant, Storage, caller, itemType, to, coins)
            IN  /\ r.result # "ok"
                /\ r.store = Storage
                /\ r.sent = 0
                /\ (Priced(itemType)
                    /\ (caller = ownerAddress(Storage) \/ coins >= PriceOf(itemType)))
                     => r.result = "SupplyExhausted"

C3_Witness ==
    /\ last.op = "mintItem"
    /\ last.result = "SupplyExhausted"
    /\ hist.mints = MaxSupplyOf(variant)
    /\ currentSupply(Storage) = MaxSupplyOf(variant)

(* -------------------------------- C4 ----------------------------------- *)

\* C4: a mintItem call by a caller other than the contract owner with less
\* than price(itemType) attached fails with InsufficientPayment, leaves the
\* store unchanged and forwards no payment.
C4_InsufficientPayment ==
    \A caller \in Addresses, itemType \in ItemTypeInputs, to \in Addresses,
       coins \in CoinInputs :
        (caller # ownerAddress(Storage) /\ Priced(itemType) /\ coins < PriceOf(itemType))
        => LET r == mintItem(variant, Storage, caller, itemType, to, coins)
           IN  r.result = "InsufficientPayment" /\ r.store = Storage /\ r.sent = 0

C4_Witness ==
    /\ last.op = "mintItem"
    /\ last.result = "InsufficientPayment"
    /\ last.caller # ownerAddress(Storage)
    /\ last.coins > 0
    /\ last.sent = 0

(* -------------------------------- C5 ----------------------------------- *)

\* C5: a mintItem call by the contract owner is never refused for its
\* payment, and when it succeeds with a payment attached the payment is
\* forwarded to the owner's own address.
C5_OwnerMintForwards ==
    (last.op = "mintItem" /\ last.caller = ownerAddress(Storage)) =>
        /\ last.result # "InsufficientPayment"
        /\ (last.result = "ok" /\ last.coins > 0)
             => (last.sent = last.coins /\ last.sentTo = ownerAddress(Storage))

(* -------------------------------- C6 ----------------------------------- *)

\* the balance of address a changes by d between stores S and T
BalanceMoves(S, T, a, d) == balanceOf(T, a) = balanceOf(S, a) + d

\* C6, the transfer: a transferFrom(caller, A, B, tid) that succeeds leaves
\* ownerOf(tid) = B and no approval on tid; Balance[A] is 1 lower and
\* Balance[B] 1 higher, both unchanged when A = B.
C6_TransferPost ==
    variant = "part_001" =>
        \A caller \in Addresses, A \in Addresses, B \in Addresses, tid \in TokenIdInputs :
            LET r == transferFrom(Storage, caller, A, B, tid)
            IN  r.result = "ok" =>
                  /\ ownerOf(r.store, tid) = B
                  /\ getApproved(r.store, tid) = NoAddress
                  /\ BalanceMoves(Storage, r.store, A, IF A = B THEN 0 ELSE -1)
                  /\ BalanceMoves(Storage, r.store, B, IF A = B THEN 0 ELSE 1)

\* C6, in general: in the state right after a change of a token's owner the
\* token has no approved address.
C6_OwnerChangeClearsApproval ==
    \A tid \in TokenIds :
        ownerOf(Storage', tid) # ownerOf(Storage, tid)
        => getApproved(Storage', tid) = NoAddress

\* C6: both parts, in every reachable state and over every step.
C6_Transfer == [](C6_TransferPost) /\ [][C6_OwnerChangeClearsApproval]_vars

C6_Witness ==
    /\ last.op = "transferFrom"
    /\ last.result = "ok"
    /\ last.caller # ownerOf(Storage, last.id)
    /\ balanceOf(Storage, ownerOf(Storage, last.id)) >= 1
    /\ getApproved(Storage, last.id) = NoAddress

(* ----------------------- attribute records as text --------------------- *)

RecordKeys == <<"XP=", "MAG=", "CONDITION=", "RARITY=">>

\* "{itemType},XP={xp},MAG={magnitude},CONDITION={condition},RARITY={rarity}"
Render(rec) ==
    rec.itemType \o <<",", "XP=">> \o rec.xp \o <<",", "MAG=">> \o rec.mag
                 \o <<",", "CONDITION=">> \o rec.condition
                 \o <<",", "RARITY=">> \o rec.rarity

Malformed == [itemType |-> <<"?">>, xp |-> <<"?">>, mag |-> <<"?">>,
              condition |-> <<"?">>, rarity |-> <<"?">>]

\* the record a text of that layout stands for: the item type runs to the
\* first comma, the rarity from RARITY= to the end
Parse(text) ==
    LET parts == Split(text)
    IN  IF /\ Len(parts) >= 5
           /\ \A i \in 1 .. 4 : StartsWith(parts[i + 1], RecordKeys[i])
        THEN [itemType |-> parts[1],
              xp |-> Tail(parts[2]),
              mag |-> Tail(parts[3]),
              condition |-> Tail(parts[4]),
              rarity |-> Tail(Join(SubSeq(parts, 5, Len(parts))))]
        ELSE Malformed

\* the part of a URI after its first '?'
QueryOf(uri) ==
    LET q == CHOOSE i \in 1 .. Len(uri) :
                 uri[i] = "?" /\ \A j \in 1 .. (i - 1) : uri[j] # "?"
    IN  SubSeq(uri, q + 1, Len(uri))

\* the attribute record stored for a token: item type and numbers in the
\* ITEM_METADATA record, the rarity under RARITY:{id} (setRarity's key)
StoredRecord(S, tid) ==
    [Parse(S[Key(ITEM_TYPE_KEY, NumStr(tid))]) EXCEPT
        !.rarity = getOrDefault(S, Key(RARITY_KEY, NumStr(tid)), <<"Undefined">>)]

MintedIds(S) == 1 .. currentSupply(S)

(* -------------------------------- C7 ----------------------------------- *)

\* C7: for every minted token, parsing the query segment of tokenURI(tid)
\* gives exactly the attribute record stored for tid.
C7_TokenURIRoundTrip ==
    HasTokenURI(variant) =>
        \A tid \in MintedIds(Storage) :
            Parse(QueryOf(tokenURI(variant, Storage, tid))) = StoredRecord(Storage, tid)

(* -------------------------------- C8 ----------------------------------- *)

\* C8: setRarity and updateItemMetadata called by anyone but the stored
\* contract owner fail with Unauthorized and leave the store as it was.
C8_AdminUnauthorized ==
    \A caller \in Addresses, tid \in TokenIdInputs :
        caller # ownerAddress(Storage) =>
            /\ variant \in {"part_000", "part_001", "Items01_a"} =>
                 \A rarity \in RarityInputs :
                    LET r == setRarity(Storage, caller, tid, rarity)
                    IN  r.result = "Unauthorized" /\ r.store = Storage
            /\ variant = "part_001" =>
                 \A stats \in StatInputs :
                    LET r == updateItemMetadata(Storage, caller, tid,
                                                stats[1], stats[2], stats[3])
                    IN  r.result = "Unauthorized" /\ r.store = Storage

C8_Witness ==
    /\ last.op \in {"setRarity", "updateItemMetadata"}
    /\ last.result = "Unauthorized"
    /\ last.caller # ownerAddress(Storage)
    /\ last.id \in MintedIds(Storage)

(* -------------------------------- C9 ----------------------------------- *)

\* C9: for a minted token, updateItemMetadata(tid, xp, mag, condition) by the
\* owner succeeds and leaves the record with exactly XP=xp, MAG=mag,
\* CONDITION=condition, item type and rarity text as they were.
C9_UpdateKeepsTypeAndRarity ==
    variant = "part_001" =>
        \A tid \in MintedIds(Storage), stats \in StatInputs :
            LET metadataKey == Key(ITEM_TYPE_KEY, NumStr(tid))
                before == Parse(Storage[metadataKey])
                r == updateItemMetadata(Storage, ownerAddress(Storage), tid,
                                        stats[1], stats[2], stats[3])
            IN  /\ r.result = "ok"
                /\ r.store[metadataKey] =
                     Render([before EXCEPT !.xp = NumStr(stats[1]),
                                           !.mag = NumStr(stats[2]),
                                           !.condition = NumStr(stats[3])])

(* -------------------------------- C10 ---------------------------------- *)

\* C10: 0 <= Counter <= MaxSupply in every reachable state, and the value
\* maxSupply() returns is the ceiling stored at deployment.
C10_CounterWithinSupply ==
    /\ currentSupply(Storage) \in 0 .. MaxSupplyOf(variant)
    /\ Has(Storage, MAX_SUPPLY_KEY) =>
         /\ maxSupply(Storage) = MaxSupplyOf(variant)
         /\ maxSupply(Storage) = maxSupply(Deployed(variant))

C10_Witness ==
    /\ Minted
    /\ variant = "part_001"
    /\ last.id = maxSupply(Storage)
    /\ currentSupply(Storage) = maxSupply(Storage)

(* -------------------------------- C11 ---------------------------------- *)

\* C11: after every completed call, each token id in 1 .. Counter has a stored
\* owner (one address, not the empty one) and a stored attribute record (one
\* non-empty text).
C11_MintedTokensComplete ==
    \A tid \in MintedIds(Storage) :
        /\ Has(Storage, Key(TOKEN_OWNER_KEY, NumStr(tid)))
        /\ ownerOf(Storage, tid) \in Addresses
        /\ Has(Storage, Key(ITEM_TYPE_KEY, NumStr(tid)))
        /\ Storage[Key(ITEM_TYPE_KEY, NumStr(tid))] # EMPTY

C11_Witness ==
    /\ currentSupply(Storage) = 2
    /\ last.op # "mintItem"
    /\ last.result = "ok"

(* -------------------------------- C12 ---------------------------------- *)

\* C12: over every call of every entry point, the constructor included, the
\* counter never goes down: a successful mint raises it by exactly 1 and
\* hands out the new counter value as the id, every other call leaves it as
\* it was.
C12_CounterStep ==
    IF last'.op = "mintItem" /\ last'.result = "ok"
    THEN /\ currentSupply(Storage') = currentSupply(Storage) + 1
         /\ last'.id = hist.mints + 1
    ELSE currentSupply(Storage') = currentSupply(Storage)

C12_CounterNeverDecreases == [][C12_CounterStep]_vars

(* -------------------------------- C13 ---------------------------------- *)

\* C13: once deployed (the owner key exists), every constructor call fails
\* with AlreadyInitialized and leaves the store as it was, and the stored
\* contract owner is the deployer in every reachable state.
C13_InitializedOnce ==
    /\ ownerAddress(Storage) = Deployer
    /\ \A caller \in Addresses :
          LET r == constructor(variant, Storage, caller, ReinitArgs, FALSE)
          IN  r.result = "AlreadyInitialized" /\ r.store = Storage

(* -------------------------------- C14 ---------------------------------- *)

\* C14: mintItem with an item type that has no price entry fails with
\* UnknownItemType for the owner and for anyone else, whatever is attached:
\* the failure precedes the payment check, the store is unchanged and nothing
\* is forwarded.
C14_UnknownItemType ==
    \A caller \in Addresses, itemType \in ItemTypeInputs, to \in Addresses,
       coins \in CoinInputs :
        ~Priced(itemType)
        => LET r == mintItem(variant, Storage, caller, itemType, to, coins)
           IN  r.result = "UnknownItemType" /\ r.store = Storage /\ r.sent = 0

\* an unpriced type offered by a non-owner with nothing attached, who would
\* fail the payment check of any priced type as well
C14_Witness ==
    /\ last.op = "mintItem"
    /\ last.result = "UnknownItemType"
    /\ last.caller # ownerAddress(Storage)
    /\ last.coins = 0
    /\ hist.mints >= 1

(* -------------------------------- C15 ---------------------------------- *)

\* a call that failed left the store as it was and sent nothing
NoPartialWrite(r) == r.result # "ok" => (r.store = Storage /\ r.sent = 0)

\* C15: every failing call of mintItem, transferFrom, approve, setRarity and
\* updateItemMetadata leaves the persisted state identical to the state
\* before the call.
C15_FailureWritesNothing ==
    /\ \A caller \in Addresses, itemType \in ItemTypeInputs, to \in Addresses,
          coins \in CoinInputs :
          NoPartialWrite(mintItem(variant, Storage, caller, itemType, to, coins))
    /\ variant \in {"part_000", "part_001", "Items01_a"} =>
          \A caller \in Addresses, tid \in TokenIdInputs, rarity \in RarityInputs :
             NoPartialWrite(setRarity(Storage, caller, tid, rarity))
    /\ variant = "part_001" =>
          \A caller \in Addresses, tid \in TokenIdInputs :
             /\ \A stats \in StatInputs :
                   NoPartialWrite(updateItemMetadata(Storage, caller, tid,
                                                     stats[1], stats[2], stats[3]))
             /\ \A to \in Addresses : NoPartialWrite(approve(Storage, caller, to, tid))
             /\ \A from \in Addresses, to \in Addresses :
                   NoPartialWrite(transferFrom(Storage, caller, from, to, tid))

\* the owner's mint refused after tokens were written
C15_Witness ==
    /\ last.op = "mintItem"
    /\ last.result \in {"SupplyExhausted", "UnknownItemType"}
    /\ last.caller = ownerAddress(Storage)
    /\ hist.mints >= 1
    /\ last.sent = 0

(* -------------------------------- C16 ---------------------------------- *)

\* the attribute record of a fresh token of the given type
DefaultRecord(itemType) ==
    [itemType |-> itemType, xp |-> NumStr(0), mag |-> NumStr(0),
     condition |-> NumStr(100), rarity |-> <<"Undefined">>]

\* the text of that record; Items01_b keeps no rarity segment, and a record
\* without one reads as rarity Undefined
DefaultRecordText(itemType) ==
    IF variant = "Items01_b"
    THEN itemType \o <<",", "XP=">> \o NumStr(0) \o <<",", "MAG=">> \o NumStr(0)
                  \o <<",", "CONDITION=">> \o NumStr(100)
    ELSE Render(DefaultRecord(itemType))

\* C16: right after a successful mintItem(itemType, to) the new token is
\* owned by `to`, has no approved address, and its record is the default one
\* (xp 0, magnitude 0, condition 100, rarity Undefined), whatever calls came
\* before the mint.
C16_MintDefaults ==
    \A caller \in Addresses, itemType \in ItemTypeInputs, to \in Addresses,
       coins \in CoinInputs :
        LET r == mintItem(variant, Storage, caller, itemType, to, coins)
            newId == currentSupply(r.store)
        IN  r.result = "ok" =>
              /\ ownerOf(r.store, newId) = to
              /\ getApproved(r.store, newId) = NoAddress
              /\ r.store[Key(ITEM_TYPE_KEY, NumStr(newId))] = DefaultRecordText(itemType)

(* -------------------------------- C17 ---------------------------------- *)

\* the attribute record tokenURI shows for a token
ShownRecord(S, tid) == Parse(QueryOf(tokenURI(variant, S, tid)))

\* C17: after the owner's setRarity(tid, r) on a minted token, the record
\* tokenURI shows for tid has rarity r, and item type, xp, magnitude and
\* condition as before the call.
C17_SetRarityShown ==
    HasTokenURI(variant) =>
        \A tid \in MintedIds(Storage), rarity \in RarityInputs :
            LET r == setRarity(Storage, ownerAddress(Storage), tid, rarity)
            IN  /\ r.result = "ok"
                /\ ShownRecord(r.store, tid)
                     = [ShownRecord(Storage, tid) EXCEPT !.rarity = rarity]

(* -------------------------------- C18 ---------------------------------- *)

\* records that lack one or more of XP=, MAG=, CONDITION=
MalformedRecordInputs ==
    { EMPTY,
      <<"TR">>,
      <<"TR", ",", "XP=", "0">>,
      <<"TR", ",", "MAG=", "0", ",", "CONDITION=", "100", ",", "RARITY=", "Undefined">>,
      <<"TR", ",", "XP=", "0", ",", "MAG=", "0", ",", "RARITY=", "CONDITION=">> }

\* the text has no part that starts with one of the three keys
LacksKey(text) ==
    \E key \in {"XP=", "MAG=", "CONDITION="} :
        \A i \in 1 .. Len(Split(text)) : ~StartsWith(Split(text)[i], key)

\* C18: updateItemMetadata by the owner on a token whose stored record lacks
\* XP=, MAG= or CONDITION= (a token id with no record included) fails with
\* MalformedRecord and writes nothing; a call that succeeds leaves the record
\* with as many fields as it had.
C18_MalformedRecord ==
    variant = "part_001" =>
        \A tid \in TokenIdInputs, stats \in StatInputs :
            LET metadataKey == Key(ITEM_TYPE_KEY, NumStr(tid))
                update(S) == updateItemMetadata(S, ownerAddress(S), tid,
                                                stats[1], stats[2], stats[3])
                current == getOrDefault(Storage, metadataKey, EMPTY)
            IN  /\ LacksKey(current) =>
                     /\ update(Storage).result = "MalformedRecord"
                     /\ update(Storage).store = Storage
                /\ update(Storage).result = "ok" =>
                     Len(Split(update(Storage).store[metadataKey])) = Len(Split(current))
                /\ \A rec \in MalformedRecordInputs :
                     LET S0 == Set(Storage, metadataKey, rec)
                     IN  /\ LacksKey(rec)
                         /\ update(S0).result = "MalformedRecord"
                         /\ update(S0).store = S0

\* the owner's update of an id that has no record, next to a minted token
C18_Witness ==
    /\ variant = "part_001"
    /\ last.op = "updateItemMetadata"
    /\ last.result = "MalformedRecord"
    /\ last.caller = ownerAddress(Storage)
    /\ last.id \notin MintedIds(Storage)
    /\ hist.mints >= 1

(* -------------------------------- C19 ---------------------------------- *)

\* "{baseURI}/{tokenId}?{render(tokenId)}"
ExpectedURI(S, tid) ==
    S[BASE_URI_KEY] \o <<"/">> \o NumStr(tid) \o <<"?">> \o Render(StoredRecord(S, tid))

\* C19: ownerOf and tokenURI of an id that was never minted (0, or above the
\* counter) fail with NotFound; tokenURI of a minted id returns the base URI,
\* the id and the rendered record of the token.
C19_ReadsOfUnminted ==
    \A tid \in TokenIdInputs :
        /\ HasTokenURI(variant) =>
             IF tid \in MintedIds(Storage)
             THEN tokenURI_call(variant, Storage, tid) = Returned(ExpectedURI(Storage, tid))
             ELSE tokenURI_call(variant, Storage, tid).result = "NotFound"
        /\ (variant = "part_000" /\ tid \notin MintedIds(Storage)) =>
             ownerOf_000(Storage, tid).result = "NotFound"

(* -------------------------------- C20 ---------------------------------- *)

\* C20: a successful mintItem with p > 0 attached forwards exactly p to the
\* contract owner's address, and one with nothing attached forwards nothing.
C20_WholePaymentForwarded ==
    Minted =>
        IF last.coins > 0
        THEN last.sent = last.coins /\ last.sentTo = ownerAddress(Storage)
        ELSE last.sent = 0 /\ last.sentTo = NoAddress

(* -------------------------------- C21 ---------------------------------- *)

\* the caller may move tokenId out of `from`
MayTransfer(S, caller, from, tokenId) ==
    \/ caller = from
    \/ (Exists(S, tokenId) /\ caller = getApproved(S, tokenId))
    \/ isApprovedForAll(S, from, caller)

\* C21: transferFrom fails with Unauthorized unless the caller is `from`, the
\* approved address of the token or an operator of `from`; an authorized
\* call fails with NotFound when the token does not exist or is not owned by
\* `from`; every failing call leaves owners, balances and approvals (the
\* whole store) as they were.
C21_TransferRefused ==
    variant = "part_001" =>
        \A caller \in Addresses, from \in Addresses, to \in Addresses,
           tid \in TokenIdInputs :
            LET r == transferFrom(Storage, caller, from, to, tid)
                owned == Exists(Storage, tid) /\ ownerOf(Storage, tid) = from
            IN  /\ ~MayTransfer(Storage, caller, from, tid) => r.result = "Unauthorized"
                /\ (MayTransfer(Storage, caller, from, tid) /\ ~owned)
                     => r.result = "NotFound"
                /\ ~owned => r.result # "ok"
                /\ r.result # "ok" => r.store = Storage

\* a caller refused for a token that exists and belongs to `from`
C21_Witness ==
    /\ variant = "part_001"
    /\ last.op = "transferFrom"
    /\ last.result = "Unauthorized"
    /\ Exists(Storage, last.id)
    /\ last.caller # ownerOf(Storage, last.id)

(* -------------------------------- C22 ---------------------------------- *)

\* C22: after the deployment constructor(name, symbol, baseURI) by the
\* deployer, the stored name, symbol and base URI are the three arguments,
\* the stored owner is the deployer and the counter is 0.
C22_ConstructorStoresArguments ==
    last.op = "deploy" =>
        /\ Storage["NAME"] = DeployArgs.name
        /\ Storage["SYMBOL"] = DeployArgs.symbol
        /\ Storage[BASE_URI_KEY] = DeployArgs.baseURI
        /\ ownerAddress(Storage) = Deployer
        /\ currentSupply(Storage) = 0

(* -------------------------------- C23 ---------------------------------- *)

\* C23: name, symbol and base URI are in every reachable state the ones the
\* deployment stored.
C23_CollectionImmutable ==
    /\ Storage["NAME"] = Deployed(variant)["NAME"]
    /\ Storage["SYMBOL"] = Deployed(variant)["SYMBOL"]
    /\ Storage[BASE_URI_KEY] = Deployed(variant)[BASE_URI_KEY]

(* -------------------------------- C24 ---------------------------------- *)

\* what a call costs its caller: the coins attached, less what the call
\* sends back to the caller
Deducted(caller, coins, r) == coins - (IF r.sentTo = caller THEN r.sent ELSE 0)

\* C24: a successful mintItem by a caller who is not the owner costs the
\* caller the price of the item type and no more; the owner's mint is never
\* refused for its payment.
C24_ChargedThePrice ==
    \A caller \in Addresses, itemType \in ItemTypeInputs, to \in Addresses,
       coins \in CoinInputs :
        LET r == mintItem(variant, Storage, caller, itemType, to, coins)
        IN  IF caller # ownerAddress(Storage)
            THEN r.result = "ok" => Deducted(caller, coins, r) = PriceOf(itemType)
            ELSE r.result # "InsufficientPayment"

(* -------------------------------- C25 ---------------------------------- *)

\* C25: a mintItem call that fails a validation has written nothing; one
\* that succeeds writes the counter first (newId = Counter + 1, and nothing
\* else yet), every later write keeps that counter, and the store after the
\* last write is the store the call leaves, from which the payment is
\* forwarded.
C25_CounterWrittenFirst ==
    \A caller \in Addresses, itemType \in ItemTypeInputs, to \in Addresses,
       coins \in CoinInputs :
        LET r == mintItem(variant, Storage, caller, itemType, to, coins)
            writes == mintWrites(variant, Storage, itemType, to)
            newId == currentSupply(Storage) + 1
            metadataKey == Key(ITEM_TYPE_KEY, NumStr(newId))
            ownerKey == Key(TOKEN_OWNER_KEY, NumStr(newId))
        IN  IF r.result # "ok" THEN r.store = Storage
            ELSE /\ writes[1] = Set(Storage, COUNTER_KEY, newId)
                 /\ Len(writes) >= 2
                 /\ \A i \in 2 .. Len(writes) : writes[i][COUNTER_KEY] = newId
                 /\ Has(Last(writes), metadataKey)
                 /\ Has(Last(writes), ownerKey)
                 /\ Last(writes)[ownerKey] = to
                 /\ Last(writes) = r.store

\* a second mint, paid for and forwarded
C25_Witness ==
    /\ Minted
    /\ last.id = 2
    /\ currentSupply(Storage) = 2
    /\ last.sent > 0

(* -------------------------------- C26 ---------------------------------- *)

\* the step is a mint that was handed an id: a completed one, or one cut off
\* after some of its writes
HandsOutId == last'.op = "mintItem" /\ last'.result \in {"ok", "Aborted"}

\* what a step of the host without rollback may do to the ids: the counter
\* never goes back, so that every id handed out so far stays at or below it;
\* a mint is handed Counter + 1 and leaves it in the counter even when cut
\* off; and a mint leaves the owner and the record of every token that has
\* one as they were.
C26_Step ==
    /\ currentSupply(Storage') >= currentSupply(Storage)
    /\ HandsOutId =>
         /\ last'.id = currentSupply(Storage) + 1
         /\ currentSupply(Storage') = last'.id
         /\ \A tid \in TokenIds :
               /\ Exists(Storage, tid) => ownerOf(Storage', tid) = ownerOf(Storage, tid)
               /\ Has(Storage, Key(ITEM_TYPE_KEY, NumStr(tid))) =>
                     Storage'[Key(ITEM_TYPE_KEY, NumStr(tid))]
                       = Storage[Key(ITEM_TYPE_KEY, NumStr(tid))]

\* C26: where a mintItem call may be aborted after any prefix of its writes
\* and the writes stay, no mint is handed an id that an earlier mint,
\* completed or aborted, was handed, and no mint overwrites the owner or the
\* record of an existing token.
C26_NoIdHandedTwice == [][C26_Step]_vars

\* the same over the behaviours in which no constructor call after the
\* deployment goes through
C26_StepWithoutReinit == hist'.reinits = 0 => C26_Step

C26_WithoutReinit == [][C26_StepWithoutReinit]_vars

(* -------------------------------- C27 ---------------------------------- *)

\* the value stored under a key, <<"absent">> for a key the store lacks
ValueAt(S, k) == IF Has(S, k) THEN <<"present", S[k]>> ELSE <<"absent">>

\* the keys whose value differs between two stores
ChangedKeys(S, T) == {k \in (DOMAIN S) \cup (DOMAIN T) : ValueAt(S, k) # ValueAt(T, k)}

\* the keys that hold what is recorded for one token id
TokenKeys(tid) ==
    { Key(TOKEN_OWNER_KEY, NumStr(tid)), Key(ITEM_TYPE_KEY, NumStr(tid)),
      Key(TOKEN_METADATA_KEY, NumStr(tid)), Key(RARITY_KEY, NumStr(tid)),
      Key(APPROVED_KEY, NumStr(tid)) }

\* C27: a successful mintItem(itemType, to) changes nothing but the counter,
\* the keys of the id it allocates and the balance of `to`; every token that
\* was minted before the call (it has a stored owner) keeps its owner,
\* approval, record and rarity.
C27_MintFrame ==
    \A caller \in Addresses, itemType \in ItemTypeInputs, to \in Addresses,
       coins \in CoinInputs :
        LET r == mintItem(variant, Storage, caller, itemType, to, coins)
            newId == currentSupply(r.store)
        IN  r.result = "ok" =>
              /\ ChangedKeys(Storage, r.store)
                   \subseteq ({COUNTER_KEY, Key(BALANCE_KEY, to)} \cup TokenKeys(newId))
              /\ \A a \in Addresses \ {to} : balanceOf(r.store, a) = balanceOf(Storage, a)
              /\ \A tid \in TokenIds :
                    Exists(Storage, tid) =>
                       \A k \in TokenKeys(tid) : ValueAt(r.store, k) = ValueAt(Storage, k)

\* the same in the states no second constructor call has led to
C27_WithoutReinit == hist.reinits = 0 => C27_MintFrame

(* -------------------------------- C28 ---------------------------------- *)

\* the keys that hold the attribute data of one token id
AttributeKeys(tid) == {Key(ITEM_TYPE_KEY, NumStr(tid)), Key(RARITY_KEY, NumStr(tid))}

\* C28: setRarity, updateItemMetadata and editMetadata, whether they succeed
\* or fail and whoever calls them, change no key but the attribute data of
\* the token id they address: the counter, every owner, balance, approval
\* and price entry, and the attribute data of every other token, stay as
\* they were.
C28_MutatorsKeepLedger ==
    \A caller \in Addresses, tid \in TokenIdInputs :
        /\ variant \in {"part_000", "part_001", "Items01_a"} =>
              \A rarity \in RarityInputs :
                 ChangedKeys(Storage, setRarity(Storage, caller, tid, rarity).store)
                   \subseteq AttributeKeys(tid)
        /\ variant = "part_001" =>
              \A stats \in StatInputs :
                 ChangedKeys(Storage,
                             updateItemMetadata(Storage, caller, tid,
                                                stats[1], stats[2], stats[3]).store)
                   \subseteq AttributeKeys(tid)
        /\ variant = "Items01_b" =>
              \A kv \in KeyValueInputs :
                 ChangedKeys(Storage, editMetadata(Storage, caller, tid, kv[1], kv[2]).store)
                   \subseteq AttributeKeys(tid)

\* a mutator that went through on one of two minted tokens
C28_Witness ==
    /\ last.op \in {"setRarity", "updateItemMetadata", "editMetadata"}
    /\ last.result = "ok"
    /\ last.id \in MintedIds(Storage)
    /\ currentSupply(Storage) = 2

(* -------------------------------- C29 ---------------------------------- *)

\* C29: in every reachable state no owner, attribute record or rarity is
\* stored for an id outside 1 .. Counter.
C29_RecordsOnlyForMinted ==
    \A tid \in TokenIds \ MintedIds(Storage) :
        /\ ~Has(Storage, Key(TOKEN_OWNER_KEY, NumStr(tid)))
        /\ ~Has(Storage, Key(ITEM_TYPE_KEY, NumStr(tid)))
        /\ ~Has(Storage, Key(RARITY_KEY, NumStr(tid)))

====
